---- MODULE Spec2Model ----
(***************************************************************************)
(* Model of src/src/tmux.rs: provisioning of a tmux workspace              *)
(* (setup_workspace and the Tmux / Session / Window / Pane methods it      *)
(* calls) against a model of the multiplexer the calls act on.             *)
(*                                                                         *)
(* A name is a sequence of one-character strings, so that                  *)
(* clean_for_target is computed character by character.                    *)
(***************************************************************************)
EXTENDS Integers, Sequences, FiniteSets, TLC

VARIABLES
    mux,            \* the multiplexer: its sessions, their windows, pane counts
    userOps,        \* number of out-of-band user operations done before the run
    pc,             \* position of the program inside setup_workspace
    run,            \* 0 before the first run, then 1 or 2
    workspace,      \* the WorkSpace request of the run
    tmux,           \* the Tmux handle: the local snapshot of sessions
    session,        \* index into tmux.sessions of `session` (0: unset)
    window,         \* index into session.windows of the window in hand (0: unset)
    to_be_deleted,  \* Option<String>: <<>> is None, <<n>> is Some(n)
    x,              \* loop variable of the split loop in setup_layout
    cmd,            \* loop variable of initial_command (0-based command index)
    calls,          \* the mutating external calls of the current run, in order
    outcome,        \* "none" while running, then "ok", "err" or "panic"
    start,          \* the multiplexer as it was when the current run started
    TMUX,           \* the TMUX environment variable as in_tmux() read it: <<>>
                    \* before the read, then <<TRUE>> (set) or <<FALSE>> (unset)
    listings,       \* one entry per reload_panes of the run: the number of
                    \* external calls issued before it
    input,          \* argument of clean_for_target when it is checked alone
    cleaned         \* its results: clean_for_target applied once, then twice

vars == <<mux, userOps, pc, run, workspace, tmux, session, window,
          to_be_deleted, x, cmd, calls, outcome, start, TMUX, listings,
          input, cleaned>>

-----------------------------------------------------------------------------
(* Bounds *)

MaxUserOps == 2
MaxCount == 3
MaxCommands == 2
MaxLen == 3

-----------------------------------------------------------------------------
(* Names *)

\* The characters the regex class \s matches among those used here.
Whitespace == {" ", "\t", "\n"}

\* The names requests and user operations range over, in byte order (the
\* order the multiplexer lists sessions in).
NameOrder == << <<"a", " ", "b">>, <<"a", "-", "b">>, <<"a", ".", "b">>, <<"z">> >>

Names == {NameOrder[k] : k \in 1..Len(NameOrder)}

Rank(n) == CHOOSE k \in 1..Len(NameOrder) : NameOrder[k] = n

\* The name the multiplexer gives the window a new session starts with.
DefaultWindowName == <<"z">>

NoName == <<>>

Dirs == {"dir"}

Descriptors == {"D"}

\* the regular expression without \s: only '.' is replaced
clean_for_target_dots_only(string) ==
    [k \in 1..Len(string) |-> IF string[k] = "." THEN "-" ELSE string[k]]

\* re.replace_all(string, "-") with re = [\.\s]
clean_for_target(string) ==
    [k \in 1..Len(string) |->
        IF string[k] = "." \/ string[k] \in Whitespace THEN "-" ELSE string[k]]

\* format!("{}:{}.{}", clean(session), clean(window), pane), kept structured
target(session_name, window_name, pane) ==
    [s |-> clean_for_target(session_name),
     w |-> clean_for_target(window_name),
     p |-> pane]

NoTarget == [s |-> NoName, w |-> NoName, p |-> -1]

-----------------------------------------------------------------------------
(* The multiplexer (external tool): sessions listed in name order, each   *)
(* with its windows in index order; a window has panes 0..panes-1.        *)

MuxSessionIdx(m, name) ==
    IF \E k \in 1..Len(m) : m[k].name = name
    THEN CHOOSE k \in 1..Len(m) : m[k].name = name
    ELSE 0

MuxWindowsNamed(m, si, wname) ==
    {k \in 1..Len(m[si].windows) : m[si].windows[k].name = wname}

\* A target session:window.pane resolves to one window when the session
\* exists, exactly one of its windows has the name and the pane exists.
Resolves(m, t) ==
    /\ MuxSessionIdx(m, t.s) # 0
    /\ Cardinality(MuxWindowsNamed(m, MuxSessionIdx(m, t.s), t.w)) = 1
    /\ LET si == MuxSessionIdx(m, t.s)
           wi == CHOOSE k \in MuxWindowsNamed(m, si, t.w) : TRUE
       IN  t.p \in 0..(m[si].windows[wi].panes - 1)

ResolvedSession(m, t) == MuxSessionIdx(m, t.s)

ResolvedWindow(m, t) ==
    CHOOSE k \in MuxWindowsNamed(m, MuxSessionIdx(m, t.s), t.w) : TRUE

MuxCanNewSession(m, name) == MuxSessionIdx(m, name) = 0

MuxNewSession(m, name) ==
    LET new == [name |-> name,
                windows |-> <<[name |-> DefaultWindowName, panes |-> 1]>>]
    IN  SelectSeq(m, LAMBDA s : Rank(s.name) < Rank(name))
        \o <<new>>
        \o SelectSeq(m, LAMBDA s : Rank(s.name) > Rank(name))

MuxCanNewWindow(m, sname) == MuxSessionIdx(m, sname) # 0

MuxNewWindow(m, sname, wname) ==
    LET si == MuxSessionIdx(m, sname)
    IN  [m EXCEPT ![si].windows = Append(@, [name |-> wname, panes |-> 1])]

MuxSplitWindow(m, t) ==
    [m EXCEPT ![ResolvedSession(m, t)].windows[ResolvedWindow(m, t)].panes = @ + 1]

\* Killing the last window of a session destroys the session.
MuxKillWindow(m, t) ==
    LET si == ResolvedSession(m, t)
        wi == ResolvedWindow(m, t)
        ws == m[si].windows
        rest == [k \in 1..(Len(ws) - 1) |-> IF k < wi THEN ws[k] ELSE ws[k + 1]]
    IN  IF rest = <<>>
        THEN [k \in 1..(Len(m) - 1) |-> IF k < si THEN m[k] ELSE m[k + 1]]
        ELSE [m EXCEPT ![si].windows = rest]

MuxRenameWindow(m, si, wi, wname) ==
    [m EXCEPT ![si].windows[wi].name = wname]

-----------------------------------------------------------------------------
(* Listings (read path).  A listing that the tool rejects makes the        *)
(* unwrap() on its result panic.                                           *)

\* Windows::get(session_name, WINDOW_ALL): the session is found by its name
WindowsGetOk(m, session_name) == MuxSessionIdx(m, session_name) # 0

WindowsGet(m, session_name) == m[MuxSessionIdx(m, session_name)].windows

\* Panes::get(target, PANE_ALL) with a full target session:window.0
PanesGetOk(m, t) == Resolves(m, t)

PanesGet(m, t) ==
    [k \in 1..m[ResolvedSession(m, t)].windows[ResolvedWindow(m, t)].panes |-> k - 1]

\* Panes::get(window name, PANE_ALL): a bare window name is looked up among
\* the windows of the tool's current session `cur`, which the program does
\* not choose.
PanesGetBareOk(m, cur, window_name) ==
    /\ cur # 0
    /\ Cardinality(MuxWindowsNamed(m, cur, window_name)) = 1

PanesGetBare(m, cur, window_name) ==
    LET wi == CHOOSE k \in MuxWindowsNamed(m, cur, window_name) : TRUE
    IN  [k \in 1..m[cur].windows[wi].panes |-> k - 1]

CurChoices(m) == IF m = <<>> THEN {0} ELSE 1..Len(m)

-----------------------------------------------------------------------------
(* The local views: Pane, Window, Session *)

Pane_from_interface(index, session_name, window_name) ==
    [index |-> index, session_name |-> session_name, window_name |-> window_name]

Pane_from_interface_list(panes, session_name, window_name) ==
    [k \in 1..Len(panes) |-> Pane_from_interface(panes[k], session_name, window_name)]

\* win is the tool's window record; the view keeps win.name as listed.
Window_from_interface(m, cur, win, session_name) ==
    [panes |-> Pane_from_interface_list(PanesGetBare(m, cur, win.name),
                                        session_name, win.name),
     session_name |-> session_name,
     number_of_panes |-> win.panes,
     name |-> win.name]

all_in_session_ok(m, cur, session_name) ==
    /\ WindowsGetOk(m, session_name)
    /\ \A k \in 1..Len(WindowsGet(m, session_name)) :
          PanesGetBareOk(m, cur, WindowsGet(m, session_name)[k].name)

all_in_session(m, cur, session_name) ==
    [k \in 1..Len(WindowsGet(m, session_name)) |->
        Window_from_interface(m, cur, WindowsGet(m, session_name)[k], session_name)]

\* sess is the tool's session record; the view's name is the cleaned name.
Session_from_interface(m, cur, sess) ==
    [windows |-> all_in_session(m, cur, clean_for_target(sess.name)),
     name |-> clean_for_target(sess.name)]

all_sessions_ok(m, cur) ==
    \A k \in 1..Len(m) : all_in_session_ok(m, cur, clean_for_target(m[k].name))

all_sessions(m, cur) == [k \in 1..Len(m) |-> Session_from_interface(m, cur, m[k])]

\* Tmux::find_session: the first session whose (cleaned) name equals `name`
\* as passed; 0 is None.
find_session(sessions, name) ==
    IF \E k \in 1..Len(sessions) : sessions[k].name = name
    THEN CHOOSE k \in 1..Len(sessions) :
            /\ sessions[k].name = name
            /\ \A j \in 1..(k - 1) : sessions[j].name # name
    ELSE 0

\* has_window with the slip of comparing the back-reference instead of the name
has_window_by_session(windows, name) ==
    \E k \in 1..Len(windows) : windows[k].session_name = name

has_window(windows, name) == \E k \in 1..Len(windows) : windows[k].name = name

\* Session::find_window: the first window whose name equals `name`; 0 is None.
find_window(windows, name) ==
    IF \E k \in 1..Len(windows) : windows[k].name = name
    THEN CHOOSE k \in 1..Len(windows) :
            /\ windows[k].name = name
            /\ \A j \in 1..(k - 1) : windows[j].name # name
    ELSE 0

\* get_pane taking the pane by position: panes.get(pane), falling back to
\* the last pane
get_pane_by_position(panes, pane) ==
    IF panes = <<>> THEN 0
    ELSE IF pane + 1 <= Len(panes) THEN pane + 1 ELSE Len(panes)

\* get_pane with an index that is off by one
get_pane_off_by_one(panes, pane) ==
    IF \E k \in 1..Len(panes) : panes[k].index = pane + 1
    THEN CHOOSE k \in 1..Len(panes) : panes[k].index = pane + 1
    ELSE 0

\* Window::get_pane: the first pane whose index equals `pane`; 0 is None.
get_pane(panes, pane) ==
    IF \E k \in 1..Len(panes) : panes[k].index = pane
    THEN CHOOSE k \in 1..Len(panes) :
            /\ panes[k].index = pane
            /\ \A j \in 1..(k - 1) : panes[j].index # pane
    ELSE 0

\* the window's name used where its session's name belongs
Window_target_by_name(w, pane) == target(w.name, w.name, pane)

Window_target(w, pane) == target(w.session_name, w.name, pane)

Session_target(s, window_name, pane) == target(s.name, window_name, pane)

reload_panes_ok(m, w) == PanesGetOk(m, target(w.session_name, w.name, 0))

\* Window::reload_panes replaces panes only; number_of_panes stays as listed.
reload_panes(m, w) ==
    [w EXCEPT !.panes =
        Pane_from_interface_list(PanesGet(m, target(w.session_name, w.name, 0)),
                                 w.session_name, w.name)]

-----------------------------------------------------------------------------
(* The mutating external calls, as logged *)

NoKeys == [kind |-> "none", command |-> -1, t |-> NoTarget, layout |-> "", enter |-> FALSE]

\* vec![format!("tmux select-layout -t {} \"{}\"", target, layout_string), "Enter"]
LayoutKeys(t, layout_string) ==
    [kind |-> "layout", command |-> -1, t |-> t, layout |-> layout_string, enter |-> TRUE]

\* vec![command, "Enter"]; a command is identified by its index in the request
CommandKeys(command) ==
    [kind |-> "command", command |-> command, t |-> NoTarget, layout |-> "", enter |-> TRUE]

Call(op, name, t, cwd, keys, ok) ==
    [op |-> op, name |-> name, t |-> t, cwd |-> cwd, keys |-> keys, ok |-> ok]

\* NewSession { detached, session_name: Some(name) }
NewSessionCall(name, ok) == Call("newSession", name, NoTarget, "", NoKeys, ok)

\* NewWindow { window_name, target_window: Some(session name), cwd, detached }
NewWindowCall(session_name, window_name, dir, ok) ==
    Call("newWindow", window_name, [s |-> session_name, w |-> NoName, p |-> -1],
         dir, NoKeys, ok)

SplitWindowCall(t, dir, ok) == Call("splitWindow", NoName, t, dir, NoKeys, ok)

\* Tmux::send_keys(session_name, window_name, pane, keys)
SendKeysCall(session_name, window_name, pane, keys, ok) ==
    Call("sendKeys", NoName, target(session_name, window_name, pane), "", keys, ok)

\* the two branches of attach exchanged
AttachCallSwapped(in_tmux, t, ok) ==
    Call(IF in_tmux THEN "attachSession" ELSE "switchClient", NoName, t, "", NoKeys, ok)

\* in_tmux() chooses switch-client, otherwise attach-session
AttachCall(in_tmux, t, ok) ==
    Call(IF in_tmux THEN "switchClient" ELSE "attachSession", NoName, t, "", NoKeys, ok)

KillWindowCall(t, ok) == Call("killWindow", NoName, t, "", NoKeys, ok)

-----------------------------------------------------------------------------
(* Requests and the initial state *)

\* A command is identified by its 0-based index in the request.
CommandsOfLen(n) == [k \in 1..n |-> k - 1]

Requests ==
    [session_name : Names,
     window_name : Names,
     dir : Dirs,
     layout : [window_count : 0..MaxCount, layout_string : Descriptors],
     commands : {CommandsOfLen(n) : n \in 0..MaxCommands}]

NoWorkspace ==
    [session_name |-> NoName, window_name |-> NoName, dir |-> "",
     layout |-> [window_count |-> 0, layout_string |-> ""],
     commands |-> <<>>]

NoTmux == [sessions |-> <<>>]

Init ==
    /\ mux = <<>>
    /\ userOps = 0
    /\ pc = "idle"
    /\ run = 0
    /\ workspace = NoWorkspace
    /\ tmux = NoTmux
    /\ session = 0
    /\ window = 0
    /\ to_be_deleted = <<>>
    /\ x = 0
    /\ cmd = 0
    /\ calls = <<>>
    /\ outcome = "none"
    /\ start = <<>>
    /\ TMUX = <<>>
    /\ listings = <<>>
    /\ input = <<>>
    /\ cleaned = <<>>

program == <<pc, run, workspace, tmux, session, window, to_be_deleted,
             x, cmd, calls, outcome, start, TMUX, listings, input, cleaned>>

-----------------------------------------------------------------------------
(* Out-of-band user operations on the multiplexer, before the run *)

UserNewSession(n) ==
    /\ pc = "idle"
    /\ userOps < MaxUserOps
    /\ MuxCanNewSession(mux, n)
    /\ mux' = MuxNewSession(mux, n)
    /\ userOps' = userOps + 1
    /\ UNCHANGED program

UserNewWindow(si, n) ==
    /\ pc = "idle"
    /\ userOps < MaxUserOps
    /\ mux' = MuxNewWindow(mux, mux[si].name, n)
    /\ userOps' = userOps + 1
    /\ UNCHANGED program

UserSplitWindow(si, wi) ==
    /\ pc = "idle"
    /\ userOps < MaxUserOps
    /\ mux' = [mux EXCEPT ![si].windows[wi].panes = @ + 1]
    /\ userOps' = userOps + 1
    /\ UNCHANGED program

UserRenameWindow(si, wi, n) ==
    /\ pc = "idle"
    /\ userOps < MaxUserOps
    /\ mux[si].windows[wi].name # n
    /\ mux' = MuxRenameWindow(mux, si, wi, n)
    /\ userOps' = userOps + 1
    /\ UNCHANGED program

-----------------------------------------------------------------------------
(* The program: setup_workspace, one action per step around an external   *)
(* call                                                                    *)

Start(ws) ==
    /\ pc = "idle"
    /\ pc' = "new"
    /\ run' = 1
    /\ workspace' = ws
    /\ start' = mux
    /\ UNCHANGED <<mux, userOps, tmux, session, window, to_be_deleted,
                   x, cmd, calls, outcome>>
    /\ UNCHANGED <<TMUX, listings, input, cleaned>>

End(o) == pc' = "done" /\ outcome' = o

\* the split loop with a range that starts one too high
SplitRangeFromNext(number_of_panes, window_count) == number_of_panes + 1 < window_count

\* the split loop with the closed range number_of_panes..=window_count
SplitRangeInclusive(number_of_panes, window_count) == number_of_panes <= window_count

\* the half-open range number_of_panes..window_count of the split loop
SplitRangeNonEmpty(number_of_panes, window_count) == number_of_panes < window_count

\* the result of split_window dropped: let _ = self.split_window(dir);
SplitFailedIgnored(done) == FALSE

\* self.split_window(dir)? : an Err of the call ends the run
SplitFailed(done) == ~done

\* the result of the layout keystrokes dropped
LayoutFailedIgnored(done) == FALSE

\* Ok(self.send_keys(..)?) of setup_layout: an Err of the call ends the run
LayoutFailed(done) == ~done

\* the result of attach dropped
AttachFailedIgnored(done) == FALSE

\* ..attach()? : an Err of the call ends the run
AttachFailed(done) == ~done

\* every iteration takes the first command
CommandAtFirst(commands, i) == commands[1]

\* the commands taken in reverse order
CommandAtReversed(commands, i) == commands[Len(commands) - i]

\* commands.iter().enumerate(): the command paired with index i
CommandAt(commands, i) == commands[i + 1]

\* Tmux::new() and the find_session branch of setup_workspace
TmuxNew ==
    /\ pc = "new"
    /\ \E cur \in CurChoices(mux) :
          IF ~all_sessions_ok(mux, cur)
          THEN /\ End("panic")
               /\ UNCHANGED <<tmux, session, to_be_deleted>>
          ELSE LET sessions == all_sessions(mux, cur)
                   sess == find_session(sessions, workspace.session_name)
               IN  /\ tmux' = [sessions |-> sessions]
                   /\ session' = sess
                   /\ to_be_deleted' = <<>>
                   /\ pc' = IF sess # 0 THEN "setup_workspace" ELSE "create_session"
                   /\ UNCHANGED outcome
    /\ UNCHANGED <<mux, userOps, run, workspace, window, x, cmd, calls, start>>
    /\ UNCHANGED <<TMUX, listings, input, cleaned>>

\* Tmux::create_session and the else branch of setup_workspace
CreateSession ==
    /\ pc = "create_session"
    /\ \E ok \in BOOLEAN, cur2 \in 1..(Len(mux) + 1) :
          LET name == workspace.session_name
              done == ok /\ MuxCanNewSession(mux, name)
              m2 == IF done THEN MuxNewSession(mux, name) ELSE mux
          IN  /\ mux' = m2
              /\ calls' = Append(calls, NewSessionCall(name, done))
              /\ IF ~done
                 THEN /\ End("err")
                      /\ UNCHANGED <<tmux, session, to_be_deleted>>
                 ELSE IF ~all_sessions_ok(m2, cur2)
                 THEN /\ End("panic")
                      /\ UNCHANGED <<tmux, session, to_be_deleted>>
                 ELSE LET sessions == all_sessions(m2, cur2)
                          sess == find_session(sessions, name)
                      IN  /\ tmux' = [sessions |-> sessions]
                          /\ IF sess = 0
                             THEN /\ End("err")
                                  /\ UNCHANGED <<session, to_be_deleted>>
                             ELSE IF sessions[sess].windows = <<>>
                             THEN /\ End("err")
                                  /\ session' = sess
                                  /\ UNCHANGED to_be_deleted
                             ELSE /\ session' = sess
                                  /\ to_be_deleted' = <<sessions[sess].windows[1].name>>
                                  /\ pc' = "setup_workspace"
                                  /\ UNCHANGED outcome
    /\ UNCHANGED <<userOps, run, workspace, window, x, cmd, start>>
    /\ UNCHANGED <<TMUX, listings, input, cleaned>>

\* Session::setup_workspace, the has_window branch
ReuseWindow ==
    /\ pc = "setup_workspace"
    /\ has_window(tmux.sessions[session].windows, workspace.window_name)
    /\ LET win == find_window(tmux.sessions[session].windows, workspace.window_name)
       IN  /\ window' = win
           /\ IF win = 0
              THEN End("err")
              ELSE pc' = "attach" /\ UNCHANGED outcome
    /\ UNCHANGED <<mux, userOps, run, workspace, tmux, session, to_be_deleted,
                   x, cmd, calls, start>>
    /\ UNCHANGED <<TMUX, listings, input, cleaned>>

\* Session::setup_workspace, the create_window branch
CreateWindow ==
    /\ pc = "setup_workspace"
    /\ ~has_window(tmux.sessions[session].windows, workspace.window_name)
    /\ \E ok \in BOOLEAN, cur \in CurChoices(mux) :
          LET self == tmux.sessions[session]
              window_name == clean_for_target(workspace.window_name)
              done == ok /\ MuxCanNewWindow(mux, self.name)
              m2 == IF done THEN MuxNewWindow(mux, self.name, window_name) ELSE mux
          IN  /\ mux' = m2
              /\ calls' = Append(calls,
                    NewWindowCall(self.name, window_name, workspace.dir, done))
              /\ IF ~done
                 THEN /\ End("err")
                      /\ UNCHANGED <<tmux, window>>
                 ELSE IF ~all_in_session_ok(m2, cur, self.name)
                 THEN /\ End("panic")
                      /\ UNCHANGED <<tmux, window>>
                 ELSE LET windows == all_in_session(m2, cur, self.name)
                          win == find_window(windows, window_name)
                      IN  /\ tmux' = [tmux EXCEPT !.sessions[session].windows = windows]
                          /\ window' = win
                          /\ IF win = 0
                             THEN End("err")
                             ELSE pc' = "setup_layout" /\ UNCHANGED outcome
    /\ UNCHANGED <<userOps, run, workspace, session, to_be_deleted, x, cmd, start>>
    /\ UNCHANGED <<TMUX, listings, input, cleaned>>

\* Window::setup_layout up to the loop header
SetupLayout ==
    /\ pc = "setup_layout"
    /\ LET self == tmux.sessions[session].windows[window]
       IN  IF ~reload_panes_ok(mux, self)
           THEN /\ End("panic")
                /\ UNCHANGED <<tmux, x, listings>>
           ELSE /\ tmux' = [tmux EXCEPT
                     !.sessions[session].windows[window] = reload_panes(mux, self)]
                /\ listings' = Append(listings, Len(calls))
                /\ x' = self.number_of_panes
                /\ pc' = IF SplitRangeNonEmpty(self.number_of_panes,
                                               workspace.layout.window_count)
                         THEN "split" ELSE "apply_layout"
                /\ UNCHANGED outcome
    /\ UNCHANGED <<mux, userOps, run, workspace, session, window, to_be_deleted,
                   cmd, calls, start>>
    /\ UNCHANGED <<TMUX, input, cleaned>>

\* one iteration of the split loop: Window::split_window(dir)?
SplitWindow ==
    /\ pc = "split"
    /\ \E ok \in BOOLEAN :
          LET self == tmux.sessions[session].windows[window]
              t == Window_target(self, 0)
              done == ok /\ Resolves(mux, t)
              m2 == IF done THEN MuxSplitWindow(mux, t) ELSE mux
          IN  /\ mux' = m2
              /\ calls' = Append(calls, SplitWindowCall(t, workspace.dir, done))
              /\ IF ~reload_panes_ok(m2, self)
                 THEN /\ End("panic")
                      /\ UNCHANGED <<tmux, x, listings>>
                 ELSE /\ tmux' = [tmux EXCEPT
                           !.sessions[session].windows[window] = reload_panes(m2, self)]
                      /\ listings' = Append(listings, Len(calls) + 1)
                      /\ IF SplitFailed(done)
                         THEN End("err") /\ UNCHANGED x
                         ELSE /\ x' = x + 1
                              /\ pc' = IF x + 1 < workspace.layout.window_count
                                       THEN "split" ELSE "apply_layout"
                              /\ UNCHANGED outcome
    /\ UNCHANGED <<userOps, run, workspace, session, window, to_be_deleted,
                   cmd, start>>
    /\ UNCHANGED <<TMUX, input, cleaned>>

\* the rest of Window::setup_layout: reload_panes, then the layout keystrokes
ApplyLayout ==
    /\ pc = "apply_layout"
    /\ \E ok \in BOOLEAN :
          LET self == tmux.sessions[session].windows[window]
              keys == LayoutKeys(Window_target(self, 0), workspace.layout.layout_string)
              t == target(self.session_name, self.name, 0)
              done == ok /\ Resolves(mux, t)
          IN  IF ~reload_panes_ok(mux, self)
              THEN /\ End("panic")
                   /\ UNCHANGED <<tmux, calls, cmd, listings>>
              ELSE /\ tmux' = [tmux EXCEPT
                        !.sessions[session].windows[window] = reload_panes(mux, self)]
                   /\ listings' = Append(listings, Len(calls))
                   /\ calls' = Append(calls,
                         SendKeysCall(self.session_name, self.name, 0, keys, done))
                   /\ cmd' = 0
                   /\ IF LayoutFailed(done)
                      THEN End("err")
                      ELSE /\ pc' = IF workspace.commands = <<>>
                                    THEN "attach" ELSE "initial_command"
                           /\ UNCHANGED outcome
    /\ UNCHANGED <<mux, userOps, run, workspace, session, window, to_be_deleted,
                   x, start>>
    /\ UNCHANGED <<TMUX, input, cleaned>>

\* one iteration of the loop of Window::initial_command
InitialCommand ==
    /\ pc = "initial_command"
    /\ \E ok \in BOOLEAN :
          LET self == tmux.sessions[session].windows[window]
              command == CommandAt(workspace.commands, cmd)
              pi == get_pane(self.panes, cmd)
              pane == self.panes[pi]
              done == ok /\ Resolves(mux,
                         target(pane.session_name, pane.window_name, pane.index))
          IN  IF pi = 0
              THEN /\ ok
                   /\ calls' = calls
                   /\ UNCHANGED outcome
                   /\ pc' = IF cmd + 1 < Len(workspace.commands)
                            THEN "initial_command" ELSE "attach"
              ELSE /\ calls' = Append(calls,
                         SendKeysCall(pane.session_name, pane.window_name,
                                      pane.index, CommandKeys(command), done))
                   /\ IF ~done
                      THEN End("err")
                      ELSE /\ UNCHANGED outcome
                           /\ pc' = IF cmd + 1 < Len(workspace.commands)
                                    THEN "initial_command" ELSE "attach"
    /\ cmd' = cmd + 1
    /\ UNCHANGED <<mux, userOps, run, workspace, tmux, session, window,
                   to_be_deleted, x, start>>
    /\ UNCHANGED <<TMUX, listings, input, cleaned>>

\* Window::attach on the window Session::setup_workspace returned
Attach ==
    /\ pc = "attach"
    /\ \E ok \in BOOLEAN, in_tmux \in BOOLEAN :
          LET self == tmux.sessions[session].windows[window]
              t == Window_target(self, 0)
              done == ok /\ Resolves(mux, t)
          IN  /\ TMUX' = <<in_tmux>>
              /\ calls' = Append(calls, AttachCall(in_tmux, t, done))
              /\ IF AttachFailed(done)
                 THEN End("err")
                 ELSE IF to_be_deleted = <<>>
                 THEN End("ok")
                 ELSE pc' = "remove_window" /\ UNCHANGED outcome
    /\ UNCHANGED <<mux, userOps, run, workspace, tmux, session, window,
                   to_be_deleted, x, cmd, start>>
    /\ UNCHANGED <<listings, input, cleaned>>

\* session.remove_window(delete_name)?; Ok(tmux)
RemoveWindow ==
    /\ pc = "remove_window"
    /\ \E ok \in BOOLEAN :
          LET self == tmux.sessions[session]
              t == Session_target(self, to_be_deleted[1], 0)
              done == ok /\ Resolves(mux, t)
          IN  /\ mux' = IF done THEN MuxKillWindow(mux, t) ELSE mux
              /\ calls' = Append(calls, KillWindowCall(t, done))
              /\ End(IF done THEN "ok" ELSE "err")
    /\ UNCHANGED <<userOps, run, workspace, tmux, session, window,
                   to_be_deleted, x, cmd, start>>
    /\ UNCHANGED <<TMUX, listings, input, cleaned>>

\* the same request is run again on the state the first run left
Rerun ==
    /\ pc = "done"
    /\ outcome = "ok"
    /\ run = 1
    /\ run' = 2
    /\ start' = mux
    /\ pc' = "new"
    /\ outcome' = "none"
    /\ tmux' = NoTmux
    /\ session' = 0
    /\ window' = 0
    /\ to_be_deleted' = <<>>
    /\ x' = 0
    /\ cmd' = 0
    /\ calls' = <<>>
    /\ UNCHANGED <<mux, userOps, workspace>>
    /\ TMUX' = <<>>
    /\ listings' = <<>>
    /\ UNCHANGED <<input, cleaned>>

Next ==
    \/ \E n \in Names : UserNewSession(n)
    \/ \E si \in 1..Len(mux), n \in Names : UserNewWindow(si, n)
    \/ \E si \in 1..Len(mux) : \E wi \in 1..Len(mux[si].windows) : UserSplitWindow(si, wi)
    \/ \E si \in 1..Len(mux) : \E wi \in 1..Len(mux[si].windows) :
          \E n \in Names : UserRenameWindow(si, wi, n)
    \/ \E ws \in Requests : Start(ws)
    \/ TmuxNew
    \/ CreateSession
    \/ ReuseWindow
    \/ CreateWindow
    \/ SetupLayout
    \/ SplitWindow
    \/ ApplyLayout
    \/ InitialCommand
    \/ Attach
    \/ RemoveWindow
    \/ Rerun

Spec == Init /\ [][Next]_vars

----
(* clean_for_target on its own: applied to a string, then to its result *)

Alphabet == {"a", "-", "."} \cup Whitespace

Strings == UNION {[1..n -> Alphabet] : n \in 0..MaxLen}

InitClean ==
    /\ input \in Strings
    /\ cleaned = <<>>
    /\ mux = <<>>
    /\ userOps = 0
    /\ pc = "idle"
    /\ run = 0
    /\ workspace = NoWorkspace
    /\ tmux = NoTmux
    /\ session = 0
    /\ window = 0
    /\ to_be_deleted = <<>>
    /\ x = 0
    /\ cmd = 0
    /\ calls = <<>>
    /\ outcome = "none"
    /\ start = <<>>
    /\ TMUX = <<>>
    /\ listings = <<>>

Clean ==
    /\ Len(cleaned) < 2
    /\ cleaned' = Append(cleaned,
          clean_for_target(IF cleaned = <<>> THEN input ELSE cleaned[Len(cleaned)]))
    /\ UNCHANGED <<mux, userOps, input, TMUX, listings>>
    /\ UNCHANGED <<pc, run, workspace, tmux, session, window, to_be_deleted,
                   x, cmd, calls, outcome, start>>

NextClean == Clean

SpecClean == InitClean /\ [][NextClean]_vars

-----------------------------------------------------------------------------
(* Vocabulary of the properties *)

CallIdx == 1..Len(calls)

IsAttach(c) == c.op \in {"attachSession", "switchClient"}

IsLayout(c) == c.op = "sendKeys" /\ c.keys.kind = "layout"

IsCommand(c) == c.op = "sendKeys" /\ c.keys.kind = "command"

HasCall(op) == \E k \in CallIdx : calls[k].op = op

Succeeded == pc = "done" /\ outcome = "ok"

\* the sessions of m whose sanitized name is the sanitized form of name
SessionsLike(m, name) ==
    {k \in 1..Len(m) : clean_for_target(m[k].name) = clean_for_target(name)}

NumWindowsLike(m, session_name) ==
    IF SessionsLike(m, session_name) = {} THEN 0
    ELSE Len(m[CHOOSE k \in SessionsLike(m, session_name) : TRUE].windows)

\* the request's target session:window.0
RequestTarget == target(workspace.session_name, workspace.window_name, 0)

\* the windows of m the address t names: those of the session named t.s
\* whose name is t.w
WindowsAt(m, t) ==
    IF MuxSessionIdx(m, t.s) = 0 THEN {}
    ELSE MuxWindowsNamed(m, MuxSessionIdx(m, t.s), t.w)

\* the multiplexer as the run found it holds the requested session, and in
\* it a window of the requested name, under exactly the requested names
ReusePre ==
    /\ MuxSessionIdx(start, workspace.session_name) # 0
    /\ MuxWindowsNamed(start, MuxSessionIdx(start, workspace.session_name),
                       workspace.window_name) # {}

\* the reuse path as the code decides it: the session lookup of discovery
\* (sanitized listed name against the name as requested) finds the session,
\* and its window list holds a window under the requested name
ReuseFound ==
    /\ run > 0
    /\ \E k \in 1..Len(start) : clean_for_target(start[k].name) = workspace.session_name
    /\ ReusePre

-----------------------------------------------------------------------------
(* C1 *)

\* C1: a second run of the same request on the state the first run left
\* issues no newSession and no newWindow call, and leaves the number of
\* sessions and the number of windows of the requested session unchanged.
C1_IdempotentRerun ==
    run = 2 =>
        /\ ~HasCall("newSession")
        /\ ~HasCall("newWindow")
        /\ Succeeded =>
              /\ Len(mux) = Len(start)
              /\ NumWindowsLike(mux, workspace.session_name)
                    = NumWindowsLike(start, workspace.session_name)

-----------------------------------------------------------------------------
(* C2 *)

\* C2 as claimed: when the requested session exists and holds a window of
\* the requested name, a run that gets to attach has sent the layout-apply
\* keystrokes (with the request's descriptor) to pane 0 of that window and
\* dispatched initial commands before the attach.
C2_ReuseStillReconciles ==
    (ReusePre /\ \E k \in CallIdx : IsAttach(calls[k])) =>
        \E a \in CallIdx :
            /\ IsAttach(calls[a])
            /\ \E l \in 1..(a - 1) :
                  /\ IsLayout(calls[l])
                  /\ calls[l].t = RequestTarget
                  /\ calls[l].keys.layout = workspace.layout.layout_string
            /\ workspace.commands # <<>> =>
                  \E c \in 1..(a - 1) : IsCommand(calls[c])

\* C2 as amended: when the session lookup finds the requested session and
\* that session already lists a window under the requested window name, the
\* run creates nothing and sends no keystrokes (layout application and
\* command dispatch are skipped): its only external call is one
\* attach/switch to pane 0 of that window.
C2_ReuseOnlyAttaches ==
    ReuseFound =>
        /\ Len(calls) <= 1
        /\ \A k \in CallIdx : IsAttach(calls[k]) /\ calls[k].t = RequestTarget
        /\ Succeeded => Len(calls) = 1

\* a run that reused session and window and succeeded
C2_Witness ==
    /\ ReuseFound
    /\ Succeeded
    /\ workspace.commands # <<>>
    /\ workspace.layout.window_count > 1
    /\ Len(calls) = 1 /\ IsAttach(calls[1]) /\ calls[1].ok

-----------------------------------------------------------------------------
(* C3 *)

\* C3: whenever a run that created the session removes the placeholder, the
\* window killed is not the window it attached to, and after the run the
\* requested window still exists in the session.
C3_PlaceholderNotWorkspace ==
    \A k \in CallIdx :
        (calls[k].op = "killWindow" /\ calls[k].ok) =>
            /\ \A a \in CallIdx : IsAttach(calls[a]) => calls[a].t # calls[k].t
            /\ WindowsAt(mux, RequestTarget) # {}

-----------------------------------------------------------------------------
(* C4 *)

\* C4: a successful run that started with no session of the requested name
\* leaves exactly one session of that name, holding exactly one window of
\* the requested name and no placeholder window; the layout-apply keystrokes
\* with the request's descriptor went to pane 0 of the requested window and
\* an attach/switch was issued for session:window.0.
C4_FreshRunPostcondition ==
    (Succeeded /\ SessionsLike(start, workspace.session_name) = {}) =>
        /\ Cardinality(SessionsLike(mux, workspace.session_name)) = 1
        /\ Cardinality(WindowsAt(mux, RequestTarget)) = 1
        /\ \A si \in SessionsLike(mux, workspace.session_name) :
              \A k \in CallIdx :
                 calls[k].op = "killWindow" =>
                    (calls[k].t.w = RequestTarget.w
                       \/ MuxWindowsNamed(mux, si, calls[k].t.w) = {})
        /\ \E l \in CallIdx :
              /\ IsLayout(calls[l]) /\ calls[l].ok
              /\ calls[l].t = RequestTarget
              /\ calls[l].keys.layout = workspace.layout.layout_string
        /\ \E a \in CallIdx :
              IsAttach(calls[a]) /\ calls[a].ok /\ calls[a].t = RequestTarget

-----------------------------------------------------------------------------
(* C5 *)

\* the pane counts of the windows the request names, as the multiplexer has them
PanesOfRequested ==
    {mux[MuxSessionIdx(mux, RequestTarget.s)].windows[wi].panes :
        wi \in WindowsAt(mux, RequestTarget)}

\* C5 as claimed: after every successful run, created or reused, the
\* requested window has at least layout.window_count panes.
C5_MinimumPaneCount ==
    Succeeded => \A n \in PanesOfRequested : n >= workspace.layout.window_count

\* C5 as amended: after every successful run that created the requested
\* window (its newWindow call succeeded), the requested window exists and
\* has at least layout.window_count panes.
C5_MinimumPaneCountCreated ==
    (Succeeded /\ \E k \in CallIdx : calls[k].op = "newWindow" /\ calls[k].ok) =>
        /\ PanesOfRequested # {}
        /\ \A n \in PanesOfRequested : n >= workspace.layout.window_count

\* a successful run that created the window and had to split it
C5_Witness ==
    /\ Succeeded
    /\ \E k \in CallIdx : calls[k].op = "newWindow" /\ calls[k].ok
    /\ \E k \in CallIdx : calls[k].op = "splitWindow" /\ calls[k].ok
    /\ workspace.layout.window_count = MaxCount
    /\ PanesOfRequested = {MaxCount}

-----------------------------------------------------------------------------
(* C6 *)

\* the place of a call in the order of the steps
StepOf(c) ==
    CASE c.op = "newSession" -> 0
      [] c.op = "newWindow" -> 1
      [] c.op = "splitWindow" -> 2
      [] IsLayout(c) -> 3
      [] IsCommand(c) -> 4
      [] IsAttach(c) -> 5
      [] c.op = "killWindow" -> 6

\* C6: the calls of a run come in the order newWindow, the splitWindow
\* calls, the layout-apply send-keys to pane 0, the command send-keys in
\* increasing command index, attach/switch, and killWindow only when the
\* session was created in this run; for a created window no command and no
\* attach comes without the layout-apply before it.
C6_StepOrdering ==
    /\ \A i \in CallIdx : \A j \in CallIdx :
          i < j =>
             /\ StepOf(calls[i]) <= StepOf(calls[j])
             /\ StepOf(calls[i]) = StepOf(calls[j]) => StepOf(calls[i]) \in {2, 4}
             /\ (IsCommand(calls[i]) /\ IsCommand(calls[j])) =>
                   calls[i].keys.command < calls[j].keys.command
    /\ \A l \in CallIdx : IsLayout(calls[l]) => calls[l].t.p = 0
    /\ \A k \in CallIdx :
          calls[k].op = "killWindow" =>
             \E n \in 1..(k - 1) : calls[n].op = "newSession" /\ calls[n].ok
    /\ \A k \in CallIdx :
          (HasCall("newWindow") /\ (IsCommand(calls[k]) \/ IsAttach(calls[k]))) =>
             \E l \in 1..(k - 1) : IsLayout(calls[l]) /\ calls[l].ok

\* a run that went through every step, with two splits worth of order to keep
C6_Witness ==
    /\ Succeeded
    /\ HasCall("newSession") /\ HasCall("newWindow") /\ HasCall("splitWindow")
    /\ HasCall("killWindow")
    /\ Cardinality({k \in CallIdx : IsCommand(calls[k])}) >= 2
    /\ \E k \in CallIdx : IsLayout(calls[k])
    /\ \E k \in CallIdx : IsAttach(calls[k])

-----------------------------------------------------------------------------
(* C7 *)

\* C7: when the killWindow of the placeholder fails after a successful
\* attach, the run still ends in its success outcome and the session and
\* the window remain.
C7_CleanupFailureNonFatal ==
    (pc = "done" /\ \E k \in CallIdx : calls[k].op = "killWindow" /\ ~calls[k].ok) =>
        /\ outcome = "ok"
        /\ WindowsAt(mux, RequestTarget) # {}

-----------------------------------------------------------------------------
(* C8 *)

\* C8: the session lookup selects a session exactly when the sanitized form
\* of a listed session name equals the sanitized form of the requested name,
\* and the window lookup selects a window of that session exactly when the
\* sanitized form of a listed window name equals that of the requested name.
C8_SanitizedLookup ==
    /\ (run > 0 /\ pc \in {"create_session", "setup_workspace"} /\ calls = <<>>) =>
          (session # 0 <=> SessionsLike(start, workspace.session_name) # {})
    /\ pc = "setup_workspace" =>
          (has_window(tmux.sessions[session].windows, workspace.window_name)
             <=> \E k \in 1..Len(tmux.sessions[session].windows) :
                    clean_for_target(tmux.sessions[session].windows[k].name)
                       = clean_for_target(workspace.window_name))

-----------------------------------------------------------------------------
(* C9 *)

\* C9: every call of a run that names or targets the requested session or
\* window carries the sanitized name: newSession the sanitized session
\* name, newWindow the sanitized window name and session, and every target
\* the sanitized session and a sanitized window name.
C9_SanitizedAddressing ==
    \A k \in CallIdx :
        /\ calls[k].op = "newSession" =>
              calls[k].name = clean_for_target(workspace.session_name)
        /\ calls[k].op = "newWindow" =>
              /\ calls[k].name = clean_for_target(workspace.window_name)
              /\ calls[k].t.s = clean_for_target(workspace.session_name)
        /\ calls[k].op \in {"splitWindow", "sendKeys", "attachSession", "switchClient"} =>
              calls[k].t = target(workspace.session_name, workspace.window_name, calls[k].t.p)
        /\ calls[k].op = "killWindow" =>
              /\ calls[k].t.s = clean_for_target(workspace.session_name)
              /\ calls[k].t.w = clean_for_target(calls[k].t.w)

-----------------------------------------------------------------------------
(* C10 *)

\* the pane indices of the window in hand, as its pane list has them
PaneIndices ==
    {tmux.sessions[session].windows[window].panes[k].index :
        k \in 1..Len(tmux.sessions[session].windows[window].panes)}

\* the commands whose loop iteration is over
Dispatched ==
    IF pc = "initial_command" THEN 0..(cmd - 1)
    ELSE IF pc \in {"attach", "remove_window"} \/ Succeeded
         THEN 0..(Len(workspace.commands) - 1)
         ELSE {}

\* C10: command i is sent, followed by Enter, only to the pane of the
\* window's pane list whose index is i; a command with no pane of its index
\* gets no sendKeys call and raises no error, and dispatch goes on.
C10_DispatchByPaneIndex ==
    /\ \A k \in CallIdx :
          IsCommand(calls[k]) =>
             /\ calls[k].t.p = calls[k].keys.command
             /\ calls[k].keys.enter
             /\ calls[k].t = target(workspace.session_name, workspace.window_name,
                                    calls[k].keys.command)
    /\ HasCall("newWindow") =>
          \A i \in Dispatched :
             (\E k \in CallIdx : IsCommand(calls[k]) /\ calls[k].keys.command = i)
                <=> i \in PaneIndices
    /\ (outcome = "err" /\ \E l \in CallIdx : IsLayout(calls[l]) /\ calls[l].ok) =>
          ~calls[Len(calls)].ok

\* a successful run with a command that had its pane and a later one that
\* had none
C10_Witness ==
    /\ Succeeded
    /\ HasCall("newWindow")
    /\ Len(workspace.commands) = 2
    /\ PaneIndices = {0}
    /\ \E k \in CallIdx : IsCommand(calls[k]) /\ calls[k].keys.command = 0 /\ calls[k].ok
    /\ ~\E k \in CallIdx : IsCommand(calls[k]) /\ calls[k].keys.command = 1

----
(* C11  pane growth                                                        *)

SplitCalls == {k \in CallIdx : calls[k].op = "splitWindow"}

OkSplits == {k \in SplitCalls : calls[k].ok}

\* the view of the window the run holds
InHand == tmux.sessions[session].windows[window]

\* C11: once the pane-growth step has started, the requested window has the
\* panes it was listed with plus one for every split that succeeded, so its
\* pane count never decreases; a split is issued only when the pane count at
\* that moment is below layout.window_count; there are at most
\* (layout.window_count - initial pane count) splits; each split targets
\* pane 0 of the requested window.
C11_PaneGrowth ==
    (SplitCalls # {} \/ pc \in {"split", "apply_layout"}) =>
        LET initial == InHand.number_of_panes
            count == workspace.layout.window_count
        IN  /\ PanesOfRequested = {initial + Cardinality(OkSplits)}
            /\ \A k \in SplitCalls :
                  /\ calls[k].t = RequestTarget
                  /\ calls[k].t.p = 0
                  /\ initial + Cardinality({j \in OkSplits : j < k}) < count
            /\ SplitCalls # {} => Cardinality(SplitCalls) <= count - initial
            /\ pc = "split" => initial + Cardinality(OkSplits) < count

\* the growth loop is over after two successful splits
C11_Witness ==
    /\ pc = "apply_layout"
    /\ Cardinality(OkSplits) >= 2
    /\ PanesOfRequested = {workspace.layout.window_count}

----
(* C12  a failed split                                                     *)

FailedSplits == {k \in SplitCalls : ~calls[k].ok}

CreatedSession == \E k \in CallIdx : calls[k].op = "newSession" /\ calls[k].ok

\* C12: when a splitWindow call fails, the run ends with an error and that
\* call is the last one of the run (no further split, no layout-apply, no
\* command, no attach/switch, no killWindow); the requested window is still
\* there with the panes of the earlier successful splits, and so is the
\* session when this run created it.
C12_SplitFailureAborts ==
    \A k \in FailedSplits :
        /\ k = Len(calls)
        /\ pc = "done"
        /\ outcome = "err"
        /\ PanesOfRequested = {InHand.number_of_panes + Cardinality(OkSplits)}
        /\ CreatedSession => MuxSessionIdx(mux, workspace.session_name) # 0

\* the second split of a run that created its session fails
C12_Witness ==
    /\ FailedSplits # {}
    /\ Cardinality(OkSplits) >= 1
    /\ CreatedSession
    /\ PanesOfRequested = {2}

----
(* C13  attach or switch                                                   *)

AttachCalls == {k \in CallIdx : IsAttach(calls[k])}

\* C13: the attach step issues exactly one external call: switchClient when
\* the TMUX environment variable is set, attachSession when it is not, never
\* both, and its target is pane 0 of the requested window in the requested
\* session.
C13_AttachTwoWayChoice ==
    /\ Cardinality(AttachCalls) <= 1
    /\ (TMUX # <<>>) <=> (AttachCalls # {})
    /\ \A k \in AttachCalls :
          /\ TMUX = <<TRUE>> => calls[k].op = "switchClient"
          /\ TMUX = <<FALSE>> => calls[k].op = "attachSession"
          /\ calls[k].t = RequestTarget
          /\ calls[k].t.p = 0

\* a run inside the multiplexer switched the client
C13_Witness ==
    /\ TMUX = <<TRUE>>
    /\ \E k \in AttachCalls : calls[k].op = "switchClient" /\ calls[k].ok

----
(* C14  no partial success                                                 *)

\* the calls of the run that failed, the placeholder removal aside
FailedCalls == {k \in CallIdx : ~calls[k].ok /\ calls[k].op # "killWindow"}

\* the last call created a session or a window and the listing taken after
\* it does not show it under the requested name
NotFoundAfterCreate ==
    /\ calls # <<>>
    /\ outcome # "panic"
    /\ LET c == calls[Len(calls)]
       IN  /\ c.ok
           /\ \/ c.op = "newSession" /\ session = 0
              \/ c.op = "newWindow" /\ window = 0

\* C14: when newSession, newWindow, a splitWindow, the layout-apply, a
\* command sendKeys or the attach/switch fails, or a created session or
\* window is not found right after its creation, the run ends with an error
\* and never with success; the failed call is the last call of the run, and
\* no killWindow undoes what the run did before.
C14_NoPartialSuccess ==
    /\ \A k \in FailedCalls :
          /\ k = Len(calls)
          /\ pc = "done"
          /\ outcome = "err"
          /\ ~HasCall("killWindow")
    /\ NotFoundAfterCreate => pc = "done" /\ outcome = "err"
    /\ Succeeded => \A k \in CallIdx : calls[k].ok

\* the layout-apply failed after a successful split in a new session
C14_Witness ==
    /\ CreatedSession
    /\ OkSplits # {}
    /\ \E k \in FailedCalls : IsLayout(calls[k])
    /\ outcome = "err"

----
(* C15  the rest of the multiplexer                                        *)

TargetedCalls ==
    {k \in CallIdx :
        calls[k].op \in {"newWindow", "splitWindow", "sendKeys", "killWindow"}}

\* the windows of a session other than those under the requested name
OtherWindows(windows) ==
    SelectSeq(windows, LAMBDA w : w.name # RequestTarget.w)

\* C15: newWindow, splitWindow, sendKeys and killWindow all address the
\* requested session; newWindow creates the requested window, splitWindow
\* and sendKeys address the requested window, killWindow the placeholder of
\* a session this run created. Every session other than the requested one
\* is as the run found it, no other session appears, and the windows of
\* the requested session other than the requested one are as the run found
\* them.
C15_UnrelatedUntouched ==
    /\ \A k \in TargetedCalls :
          LET c == calls[k]
          IN  /\ c.t.s = workspace.session_name
              /\ c.op = "newWindow" => c.name = RequestTarget.w
              /\ c.op \in {"splitWindow", "sendKeys"} => c.t.w = RequestTarget.w
              /\ c.op = "killWindow" =>
                    /\ CreatedSession
                    /\ MuxSessionIdx(start, workspace.session_name) = 0
                    /\ c.t.w = clean_for_target(DefaultWindowName)
    /\ run > 0 =>
          /\ \A i \in 1..Len(start) :
                LET j == MuxSessionIdx(mux, start[i].name)
                IN  /\ j # 0
                    /\ IF start[i].name = workspace.session_name
                       THEN OtherWindows(mux[j].windows) = OtherWindows(start[i].windows)
                       ELSE mux[j] = start[i]
          /\ \A j \in 1..Len(mux) :
                mux[j].name # workspace.session_name =>
                    MuxSessionIdx(start, mux[j].name) # 0

\* a successful run added a window with two panes to a session that had
\* another window, next to another session
C15_Witness ==
    /\ Succeeded
    /\ ~CreatedSession
    /\ OkSplits # {}
    /\ Len(start) >= 2
    /\ mux # start

----
(* C16  sanitization applied twice                                         *)

Unsafe == {"."} \cup Whitespace

\* C16: for every string over the alphabet, sanitizing the sanitized string
\* gives the sanitized string again, and the sanitized string holds no '.'
\* and no whitespace character.
C16_SanitizationIdempotent ==
    /\ Len(cleaned) >= 1 =>
          /\ Len(cleaned[1]) = Len(input)
          /\ \A k \in 1..Len(cleaned[1]) : cleaned[1][k] \notin Unsafe
    /\ Len(cleaned) = 2 => cleaned[2] = cleaned[1]

\* a string with a dot, a blank and a dash was sanitized twice
C16_Witness ==
    /\ Len(cleaned) = 2
    /\ \E i, j, k \in 1..Len(input) :
          input[i] = "." /\ input[j] \in Whitespace /\ input[k] = "-"

----
(* C17  refresh after every mutation                                       *)

\* some reload_panes of the run happened after the first k calls and before
\* call k + 1
ListedAfter(k) == \E l \in 1..Len(listings) : listings[l] = k

\* the pane indices the view in hand holds
LocalPaneIndices == {InHand.panes[j].index : j \in 1..Len(InHand.panes)}

\* C17: every splitWindow call is followed by a pane listing before the next
\* call; the layout-apply is followed by a pane listing before the first
\* command is dispatched; and where the pane count decides on a split, and
\* where the pane list is searched for a command's pane, they are the panes
\* the multiplexer holds.
C17_RefreshAfterMutation ==
    /\ \A k \in SplitCalls : outcome # "panic" => ListedAfter(k)
    /\ \A k \in CallIdx :
          (IsLayout(calls[k]) /\ \E j \in CallIdx : j > k /\ IsCommand(calls[j]))
              => ListedAfter(k)
    /\ pc = "split" => PanesOfRequested = {x}
    /\ pc = "initial_command" =>
          \E n \in PanesOfRequested : LocalPaneIndices = 0..(n - 1)

----
(* C18  no retries                                                         *)

CallsOf(op) == {k \in CallIdx : calls[k].op = op}

\* call j repeats call k: the same operation with the same arguments
Repeats(j, k) == [calls[j] EXCEPT !.ok = TRUE] = [calls[k] EXCEPT !.ok = TRUE]

\* C18: a run issues at most one newSession, one newWindow, one
\* layout-apply sendKeys, one sendKeys per command, one attach/switch and
\* one killWindow, and a call that failed is never issued again.
C18_NoRetries ==
    /\ Cardinality(CallsOf("newSession")) <= 1
    /\ Cardinality(CallsOf("newWindow")) <= 1
    /\ Cardinality(CallsOf("killWindow")) <= 1
    /\ Cardinality(AttachCalls) <= 1
    /\ Cardinality({k \in CallIdx : IsLayout(calls[k])}) <= 1
    /\ \A j, k \in CallIdx :
          (/\ IsCommand(calls[j])
           /\ IsCommand(calls[k])
           /\ calls[j].keys.command = calls[k].keys.command) => j = k
    /\ \A j, k \in CallIdx : (~calls[k].ok /\ j > k) => ~Repeats(j, k)

\* a successful run that issued every kind of call, with two commands
C18_Witness ==
    /\ Succeeded
    /\ HasCall("newSession")
    /\ HasCall("newWindow")
    /\ HasCall("splitWindow")
    /\ HasCall("killWindow")
    /\ Cardinality({k \in CallIdx : IsCommand(calls[k])}) = 2

----
(* C19  when the placeholder is removed                                    *)

AttachedOk == \E k \in AttachCalls : calls[k].ok

\* C19: a run issues killWindow exactly when it created the session itself
\* and the window was found or created and the attach/switch succeeded; the
\* target is pane 0 of the window that was the only, hence first, window of
\* the new session; a run that found the session issues no killWindow.
C19_PlaceholderRemovalConditional ==
    /\ \A k \in CallsOf("killWindow") :
          /\ \E j \in 1..(k - 1) : calls[j].op = "newSession" /\ calls[j].ok
          /\ \E j \in 1..(k - 1) : IsAttach(calls[j]) /\ calls[j].ok
          /\ MuxSessionIdx(start, workspace.session_name) = 0
          /\ window # 0
          /\ calls[k].t = target(workspace.session_name, DefaultWindowName, 0)
    /\ (pc = "done" /\ CreatedSession /\ AttachedOk) => HasCall("killWindow")
    /\ ~CreatedSession => ~HasCall("killWindow")

\* the placeholder of a new session was removed next to the requested window
C19_Witness ==
    /\ Succeeded
    /\ \E k \in CallsOf("killWindow") : calls[k].ok
    /\ HasCall("newWindow")
    /\ PanesOfRequested # {}

----
(* C20  commands of a newly created window                                 *)

CreatedWindow == \E k \in CallsOf("newWindow") : calls[k].ok

\* the calls that sent command i
SentCommand(i) ==
    {k \in CallIdx : IsCommand(calls[k]) /\ calls[k].keys.command = i}

\* C20: in a successful run that created the requested window, which then
\* has max(layout.window_count, 1) panes, every command with an index below
\* that number is sent exactly once, to the pane of its index, after the
\* layout-apply to pane 0; a command with a larger index is sent to no pane.
C20_CommandsDelivered ==
    (Succeeded /\ CreatedWindow) =>
        LET count == workspace.layout.window_count
            n == IF count > 1 THEN count ELSE 1
        IN  /\ PanesOfRequested = {n}
            /\ \A i \in 0..(Len(workspace.commands) - 1) :
                  IF i < n
                  THEN /\ Cardinality(SentCommand(i)) = 1
                       /\ \A k \in SentCommand(i) :
                             /\ calls[k].ok
                             /\ calls[k].t =
                                   target(workspace.session_name,
                                          workspace.window_name, i)
                             /\ \E l \in 1..(k - 1) :
                                   /\ IsLayout(calls[l])
                                   /\ calls[l].t.p = 0
                  ELSE SentCommand(i) = {}

\* two commands for a new window of one pane: the first was delivered, the
\* second was not sent
C20_Witness ==
    /\ Succeeded
    /\ CreatedWindow
    /\ Len(workspace.commands) = 2
    /\ PanesOfRequested = {1}
    /\ SentCommand(0) # {}
    /\ SentCommand(1) = {}

====
